---- MODULE Spec2Model ----
(***************************************************************************)
(* A model of snipsync's marker engine (src/src/Sync.js): rendering a      *)
(* Snippet (Snippet.fmt), the splice pass over a target file               *)
(* (getSplicedFile / spliceFile), the clear pass (getClearedFile) and the  *)
(* run / clear drivers that read the target files, transform them in       *)
(* memory and write them back; the download of the sources (getRepos), the *)
(* extraction of the Snippets (extractSnippets), and Snippet.fmt of the    *)
(* TypeScript class Snippet (src/unnamed/part_000).                        *)
(*                                                                         *)
(* A line of text is a sequence of its whitespace-separated words; a       *)
(* String.includes(marker) is a membership test on the words, and the      *)
(* write-start regular expression is matched on the words.  A file is a    *)
(* sequence of lines.  Array indices are 0-based in the code and 1-based   *)
(* in TLA+: lines[idx] of the code is lines[idx + 1] here.                 *)
(***************************************************************************)
EXTENDS Integers, Sequences, FiniteSets, TLC

\* ------------------------------------------------------------------ bounds

\* The longest target file (in lines) the initial states draw.
MaxFileLen == 7
\* The most Snippets a run processes.
MaxSnippets == 2
\* The longest target file drawn when write-start lines carry payloads.
MaxCfgFileLen == 6
\* The longest source file (in lines) the extraction reads.
MaxSrcLen == 6
\* The longest target file drawn when a run has two target files.
MaxRunFileLen == 3
\* The most sources (origins) the configuration lists.
MaxOrigins == 3
\* The longest source file drawn when two repositories are read.
MaxPairSrcLen == 3
\* The longest target file drawn when a pass is followed by its iterations.
MaxScanFileLen == 3
\* The most lines a Snippet has captured in such a pass.
MaxScanSnippetLines == 2
\* The most elements an array can hold (the engine's limit, scaled down).
MaxArrayLen == 24
\* The most lines a Snippet has captured when its rendering is followed.
MaxFmtLines == 2
\* The most calls of Snippet.fmt followed.
MaxRenders == 2

\* ----------------------------------------------------------- marker tokens

\* require('./common'): the marker tokens (the file is not part of src/).
writeStart == "<!--SNIPSTART"
writeStartClose == "-->"
writeEnd == "<!--SNIPEND"
readStart == "@@@SNIPSTART"
readEnd == "@@@SNIPEND"
\* (three backquotes in ./common; written with tildes here)
markdownCodeTicks == "~~~"

\* fmtStartCodeBlock(ext) of ./common: the opening fence tagged with ext.
fmtStartCodeBlock(ext) == <<markdownCodeTicks, ext>>

\* ---------------------------------------------------------------- helpers

Min(a, b) == IF a < b THEN a ELSE b
Max(a, b) == IF a > b THEN a ELSE b

\* String.prototype.includes on a line: the token occurs in the line.
Includes(line, tok) == \E i \in 1..Len(line) : line[i] = tok

\* The position of the first occurrence of tok in line (0 when absent).
IndexOf(line, tok) ==
  IF Includes(line, tok)
  THEN CHOOSE i \in 1..Len(line) :
         line[i] = tok /\ \A j \in 1..(i - 1) : line[j] # tok
  ELSE 0

\* The position of the last occurrence of tok in line (0 when absent).
LastIndexOf(line, tok) ==
  IF Includes(line, tok)
  THEN CHOOSE i \in 1..Len(line) :
         line[i] = tok /\ \A j \in (i + 1)..Len(line) : line[j] # tok
  ELSE 0

\* Array.prototype.splice(start, deleteCount, ...items) on a sequence, with
\* the clamping JavaScript applies of start and deleteCount.
ArraySplice(arr, start, deleteCount, items) ==
  LET s == Min(Max(start, 0), Len(arr))
      d == Min(Max(deleteCount, 0), Len(arr) - s)
  IN  SubSeq(arr, 1, s) \o items \o SubSeq(arr, s + d + 1, Len(arr))

\* ------------------------------------------------------ the marker grammar

\* JSON.parse of an inline payload.  A payload is one word: "{on}" stands
\* for {"enable_source_link": true}, "{off}" for {"enable_source_link":
\* false}, "{}" for an object without the key; any other word is not JSON.
NoConfig == [present |-> FALSE, enable_source_link |-> FALSE]
JSONParse(payload) ==
  CASE payload = <<"{on}">>  -> [ok |-> TRUE, value |-> [present |-> TRUE, enable_source_link |-> TRUE]]
    [] payload = <<"{off}">> -> [ok |-> TRUE, value |-> [present |-> TRUE, enable_source_link |-> FALSE]]
    [] payload = <<"{}">>    -> [ok |-> TRUE, value |-> [present |-> TRUE, enable_source_link |-> FALSE]]
    [] OTHER                 -> [ok |-> FALSE, value |-> NoConfig]

\* line.match(writeMatchRegexp): writeStart, an identifier word, an optional
\* payload (greedy: everything up to the last closing token), the closing
\* token.  matched is FALSE when the expression does not match (match()
\* returns null).
WriteMatch(line) ==
  LET i == IndexOf(line, writeStart)
      c == LastIndexOf(line, writeStartClose)
  IN  IF i = 0 \/ c < i + 2
      THEN [matched |-> FALSE, id |-> "", payload |-> <<>>]
      ELSE [matched |-> TRUE, id |-> line[i + 1],
            payload |-> SubSeq(line, i + 2, c - 1)]

\* extractWriteIDAndConfig(line).  threw is TRUE when the code throws: a
\* TypeError on matches[1] when the line does not match, a SyntaxError of
\* JSON.parse on a malformed payload.  config.present is FALSE for
\* undefined.
extractWriteIDAndConfig(line) ==
  LET m == WriteMatch(line)
  IN  IF ~m.matched
      THEN [threw |-> TRUE, id |-> "", config |-> NoConfig]
      ELSE IF m.payload = <<>>
      THEN [threw |-> FALSE, id |-> m.id, config |-> NoConfig]
      ELSE LET p == JSONParse(m.payload)
           IN  [threw |-> ~p.ok, id |-> m.id, config |-> p.value]

\* ------------------------------------------------------------ the Snippet

\* The constructor of Snippet.  A filePath is {name, directory}: the name
\* is the sequence of its parts between dots, the directory the sequence of
\* its segments between slashes.
NewSnippet(id, ext, owner, repo, ref, filePath) ==
  [id |-> id, ext |-> ext, owner |-> owner, repo |-> repo, ref |-> ref,
   filePath |-> filePath, lines |-> <<>>]

\* determineExtension(path): the part after the last dot.
determineExtension(name) == name[Len(name)]

\* Snippet.buildPath: the directory segments after the first, then the name.
buildPath(snippet) ==
  Tail(snippet.filePath.directory) \o snippet.filePath.name

\* Snippet.buildURL: host, owner, repo, "blob", the ref or "master", the path.
buildURL(snippet) ==
  LET ref == IF snippet.ref # "" THEN snippet.ref ELSE "master"
  IN  <<"https://github.com", snippet.owner, snippet.repo, "blob", ref>>
        \o Tail(snippet.filePath.directory) \o snippet.filePath.name

\* Snippet.fmtSourceLink: the markdown link line [path](url).
fmtSourceLink(snippet) ==
  <<"[">> \o buildPath(snippet) \o <<"](">> \o buildURL(snippet) \o <<")">>

\* Snippet.fmt(fmtSourceLink): the lines to insert.
fmt(snippet, sourceLink) ==
  (IF sourceLink THEN <<fmtSourceLink(snippet)>> ELSE <<>>)
    \o <<fmtStartCodeBlock(snippet.ext)>>
    \o snippet.lines
    \o <<<<markdownCodeTicks>>>>

\* Snippet.fmt(fmtSourceLink) of the TypeScript class Snippet
\* (src/unnamed/part_000): the Snippet after the call.  The method splices
\* the fences and the link into this.lines and returns nothing.
fmtTS(snippet, sourceLink) ==
  LET l1 == ArraySplice(snippet.lines, 0, 0, <<fmtStartCodeBlock(snippet.ext)>>)
      l2 == ArraySplice(l1, Len(l1), 0, <<<<markdownCodeTicks>>>>)
      l3 == IF sourceLink THEN ArraySplice(l2, 0, 0, <<fmtSourceLink(snippet)>>) ELSE l2
  IN  [snippet EXCEPT !.lines = l3]

\* --------------------------------------------------------- the splice pass

\* (mutant) deleteCount is end - start: the write-end line goes too.
spliceFile_DropsEnd(start, end, snippet, lines, config) ==
  ArraySplice(lines, start, end - start, fmt(snippet, config.enable_source_link))

\* (mutant) the splice is made at end instead of start: the rendering
\* lands after the write-end line.
spliceFile_AtEnd(start, end, snippet, lines, config) ==
  ArraySplice(lines, end, end - start - 1, fmt(snippet, config.enable_source_link))

\* Sync.spliceFile(start, end, snippet, file, config): the file's lines
\* after file.lines.splice(start, end - start - 1, ...snippet.fmt(...)).
spliceFile(start, end, snippet, lines, config) ==
  LET rmlines == end - start
  IN  ArraySplice(lines, start, rmlines - 1, fmt(snippet, config.enable_source_link))

\* The expression config || this.config.features of getSplicedFile.
EffectiveConfig(config, features) ==
  IF config.present THEN config ELSE features

\* The locals of getSplicedFile before its loop; idx is the array
\* iterator's next index (0-based), calls the spliceFile calls made so far.
ScanInit(lines) ==
  [lines |-> lines, idx |-> 0, lookForStop |-> FALSE, spliceStart |-> 0,
   config |-> NoConfig, threw |-> FALSE, calls |-> <<>>]

\* What a call spliceFile(start, end, snippet, file, config) is made with:
\* its bounds, its configuration, and the lines the array holds at the two
\* bounds (1-based) when the call is made.
SpliceCall(start, end, lines, config) ==
  [start |-> start, end |-> end, config |-> config,
   startLine |-> IF start \in 1..Len(lines) THEN lines[start] ELSE <<>>,
   endLine |-> IF end \in 1..Len(lines) THEN lines[end] ELSE <<>>,
   between |-> Cardinality({k \in 1..Len(lines) : start < k /\ k < end})]

\* (mutant) every write-start line is taken to match.
MatchesSnippet_Any(extracted, snippet) == TRUE

\* (mutant) a write-start line without payload keeps the configuration of
\* the block before it.
AssignConfig_Sticky(old, extracted) ==
  IF extracted.config.present THEN extracted.config ELSE old

\* The test extracted.id === snippet.id of getSplicedFile.
MatchesSnippet(extracted, snippet) == extracted.id = snippet.id

\* The assignment config = extracted.config of getSplicedFile, made at
\* every matching write-start line: old is the value config had.
AssignConfig(old, extracted) == extracted.config

\* One iteration of the loop of getSplicedFile, for the element at st.idx.
\* staticFile, dynamicFile and file are one object, so the iterator walks
\* the array that spliceFile mutates; fileLineNumber is always idx + 1.
ScanStep(st, snippet, features) ==
  LET line == st.lines[st.idx + 1]
      fileLineNumber == st.idx + 1
      isStart == Includes(line, writeStart)
      extracted == extractWriteIDAndConfig(line)
      hit == isStart /\ ~extracted.threw /\ MatchesSnippet(extracted, snippet)
      config == IF hit THEN AssignConfig(st.config, extracted) ELSE st.config
      spliceStart == IF hit THEN fileLineNumber ELSE st.spliceStart
      lookForStop == hit \/ st.lookForStop
      doSplice == Includes(line, writeEnd) /\ lookForStop
      eff == EffectiveConfig(config, features)
  IN  IF isStart /\ extracted.threw
      THEN [st EXCEPT !.threw = TRUE]
      ELSE [lines |-> IF doSplice
                      THEN spliceFile(spliceStart, fileLineNumber, snippet, st.lines, eff)
                      ELSE st.lines,
            idx |-> st.idx + 1,
            lookForStop |-> lookForStop /\ ~doSplice,
            spliceStart |-> spliceStart,
            config |-> config,
            threw |-> FALSE,
            calls |-> IF doSplice
                      THEN Append(st.calls,
                                  SpliceCall(spliceStart, fileLineNumber, st.lines, eff))
                      ELSE st.calls]

\* The loop of getSplicedFile from st on: the array iterator ends when its
\* index reaches the array's current length.
RECURSIVE ScanFrom(_, _, _)
ScanFrom(st, snippet, features) ==
  IF st.threw \/ st.idx >= Len(st.lines)
  THEN st
  ELSE ScanFrom(ScanStep(st, snippet, features), snippet, features)

\* Sync.getSplicedFile(snippet, file): the final locals of the pass.
getSplicedFile(snippet, lines, features) ==
  ScanFrom(ScanInit(lines), snippet, features)

\* ---------------------------------------------------------- the clear pass

\* (mutant) the write-start test comes before the push: the write-start
\* line is dropped.
ClearStep_StartFirst(st, line) ==
  LET omit1 == IF Includes(line, writeEnd) THEN FALSE ELSE st.omit
      omit2 == IF Includes(line, writeStart) THEN TRUE ELSE omit1
      kept == IF ~omit2 THEN Append(st.newFileLines, line) ELSE st.newFileLines
  IN  [omit |-> omit2, newFileLines |-> kept]

\* (mutant) omit is assigned line.includes(writeStart): only the line
\* after a write-start line is dropped.
ClearStep_OneLine(st, line) ==
  LET omit1 == IF Includes(line, writeEnd) THEN FALSE ELSE st.omit
      kept == IF ~omit1 THEN Append(st.newFileLines, line) ELSE st.newFileLines
  IN  [omit |-> Includes(line, writeStart), newFileLines |-> kept]

\* One iteration of the loop of Sync.getClearedFile, for line: st holds
\* the omit flag and newFileLines.
ClearStep(st, line) ==
  LET omit1 == IF Includes(line, writeEnd) THEN FALSE ELSE st.omit
      kept == IF ~omit1 THEN Append(st.newFileLines, line) ELSE st.newFileLines
      omit2 == IF Includes(line, writeStart) THEN TRUE ELSE omit1
  IN  [omit |-> omit2, newFileLines |-> kept]

\* The loop of Sync.getClearedFile from line i on.
RECURSIVE ClearFrom(_, _, _)
ClearFrom(lines, i, st) ==
  IF i > Len(lines)
  THEN st
  ELSE ClearFrom(lines, i + 1, ClearStep(st, lines[i]))

\* Sync.getClearedFile(file): the file's new lines.
getClearedFile(lines) ==
  ClearFrom(lines, 1, [omit |-> FALSE, newFileLines |-> <<>>]).newFileLines

\* ------------------------------------------------------- spliceSnippets

\* The two loops of Sync.spliceSnippets from Snippet k and file f on:
\* Snippets outermost, files innermost, each pass on the lines the passes
\* before it left.  A pass that throws ends the loops.
RECURSIVE SpliceLoop(_, _, _, _, _)
SpliceLoop(snips, files, features, k, f) ==
  IF k > Len(snips)
  THEN [files |-> files, threw |-> FALSE]
  ELSE IF f > Len(files)
  THEN SpliceLoop(snips, files, features, k + 1, 1)
  ELSE LET r == getSplicedFile(snips[k], files[f], features)
           files1 == [files EXCEPT ![f] = r.lines]
       IN  IF r.threw
           THEN [files |-> files1, threw |-> TRUE]
           ELSE SpliceLoop(snips, files1, features, k, f + 1)

\* Sync.spliceSnippets(snippets, files): the files it returns.
spliceSnippets(snips, files, features) ==
  SpliceLoop(snips, files, features, 1, 1).files

\* ------------------------------------------------------------- the inputs

\* The lines a target file is drawn from: a line of prose, a write-start
\* line of each identifier, a write-end line.
TextLine == <<"text">>
WriteStartLine(id) == <<writeStart, id, writeStartClose>>
WriteStartLineCfg(id, payload) == <<writeStart, id, payload, writeStartClose>>
WriteEndLine == <<writeEnd, writeStartClose>>
BlockIds == {"X", "Y"}
TargetLines ==
  {TextLine, WriteEndLine} \cup {WriteStartLine(id) : id \in BlockIds}

\* The lines with startTok and the lines with endTok strictly alternate
\* from position i on, starting with a start line when open is FALSE, and
\* the last start line is closed.
RECURSIVE Alternates(_, _, _, _, _)
Alternates(lines, i, open, startTok, endTok) ==
  IF i > Len(lines)
  THEN ~open
  ELSE LET s == Includes(lines[i], startTok)
           e == Includes(lines[i], endTok)
       IN  /\ ~(s /\ e)
           /\ s => ~open
           /\ e => open
           /\ Alternates(lines, i + 1, IF s THEN TRUE ELSE IF e THEN FALSE ELSE open,
                         startTok, endTok)

\* The write blocks of a target file are closed and do not nest.
WellFormed(lines) == Alternates(lines, 1, FALSE, writeStart, writeEnd)

SeqsUpTo(S, n) == UNION {[1..k -> S] : k \in 0..n}

\* The target files: every file of at most MaxFileLen lines whose write
\* blocks are closed and do not nest.
TargetFiles == {f \in SeqsUpTo(TargetLines, MaxFileLen) : WellFormed(f)}

\* A source file of a downloaded repository, as unzip lists it.
SourceItem == [name |-> <<"main", "go">>, directory |-> <<"samples-main", "src">>]

\* A Snippet of identifier id that captured lines.
Snippet(id, lines) ==
  [NewSnippet(id, determineExtension(SourceItem.name), "temporalio", "samples",
              IF id = "X" THEN "" ELSE "v1", SourceItem)
     EXCEPT !.lines = lines]

\* The lines a Snippet captures: source code, no marker of a target file.
\* Two Snippets of identifier X that differ in their lines (one captured
\* nothing), and one of identifier Y.
CodeLine == <<"code">>
SnippetPool ==
  {Snippet("X", <<>>), Snippet("X", <<CodeLine>>), Snippet("Y", <<CodeLine>>)}
\* What extractSnippets may return: at most MaxSnippets Snippets, no two
\* of them alike.
Injective(q) == \A i, j \in 1..Len(q) : q[i] = q[j] => i = j
SnippetSeqs == {q \in SeqsUpTo(SnippetPool, MaxSnippets) : Injective(q)}

\* Target files whose write-start lines may carry an inline payload, and
\* the Snippets of identifier X.
CfgTargetLines ==
  {TextLine, WriteEndLine, WriteStartLine("X")}
    \cup {WriteStartLineCfg("X", p) : p \in {"{on}", "{off}", "{}"}}
CfgTargetFiles == {f \in SeqsUpTo(CfgTargetLines, MaxCfgFileLen) : WellFormed(f)}
CfgSnippetSeqs == {q \in SnippetSeqs : \A i \in 1..Len(q) : q[i].id = "X"}

\* this.config.features
FeatureSets == {[present |-> TRUE, enable_source_link |-> b] : b \in BOOLEAN}

\* ------------------------------------------------------- the state machine

VARIABLES
  disk,      \* the target files on storage: a sequence of line sequences
  mem,       \* the File objects of the operation under way: their lines
  snippets,  \* what extractSnippets returned, in its order
  features,  \* this.config.features
  pc,        \* "idle", "splice", "clear", "write", "done" or "error"
  si,        \* spliceSnippets: the index of the Snippet of the next pass
  fi,        \* the index of the file of the next pass
  op,        \* the operation of this process: "none", "run" or "clear"
  pre,       \* the storage when the operation started
  prePass,   \* the lines of the file of the last pass, before that pass
  last,      \* the last pass: its kind, Snippet index and file index
  calls,     \* the spliceFile calls of the last splice pass
  repositories, \* what getRepos returned: {owner, repo, ref, filePaths}
  sources,   \* the source files on storage: sources[r][f] are the lines
             \* of the file repositories[r].filePaths[f]
  tasks,     \* extractSnippets: the locals of the task of each repository
  done,      \* the source files read to their end, with what each pushed
  origins,   \* this.origins: the configured sources, in their order
  fetch,     \* getRepos: how far the task of each origin has come
  io,        \* getRepos: the I/O operations started so far, in order
  scan,      \* getSplicedFile: the locals of the pass under way
  renders    \* what each call of Snippet.fmt made so far has yielded

spliceVars == <<disk, mem, features, si, fi, op, pre, prePass, last, calls>>
extractVars == <<repositories, sources, tasks, done>>
auxVars == <<origins, fetch, io, scan, renders>>
vars == <<disk, mem, snippets, features, pc, si, fi, op, pre, prePass, last,
          calls, repositories, sources, tasks, done, origins, fetch, io, scan,
          renders>>

\* No extraction is modelled: the Snippets are given.
NoExtraction ==
  /\ repositories = <<>>
  /\ sources = <<>>
  /\ tasks = <<>>
  /\ done = <<>>

NoPass == [kind |-> "none", si |-> 0, fi |-> 0]

\* getRepos is not modelled (the Snippets or the repositories are given), no
\* pass is modelled by its iterations and no call of fmt is recorded.
NoAux ==
  /\ origins = <<>>
  /\ fetch = <<>>
  /\ io = <<>>
  /\ scan = <<>>
  /\ renders = <<>>

Init ==
  /\ disk \in {<<f>> : f \in TargetFiles}
  /\ mem = <<>>
  /\ snippets \in SnippetSeqs
  /\ features \in FeatureSets
  /\ pc = "idle"
  /\ si = 0
  /\ fi = 0
  /\ op = "none"
  /\ pre = disk
  /\ prePass = <<>>
  /\ last = NoPass
  /\ calls = <<>>
  /\ NoExtraction
  /\ NoAux

\* The initial states of SpecCfg: target files with inline payloads.
InitCfg ==
  /\ disk \in {<<f>> : f \in CfgTargetFiles}
  /\ mem = <<>>
  /\ snippets \in CfgSnippetSeqs
  /\ features \in FeatureSets
  /\ pc = "idle"
  /\ si = 0
  /\ fi = 0
  /\ op = "none"
  /\ pre = disk
  /\ prePass = <<>>
  /\ last = NoPass
  /\ calls = <<>>
  /\ NoExtraction
  /\ NoAux

\* getTargetFilesLines / readLines: the File objects hold the stored lines.
readLines(storage) == storage

\* Sync.run up to the first splice pass: the target files are read, and
\* spliceSnippets starts its loops (no pass when there is no Snippet).
BeginRun ==
  /\ pc = "idle"
  /\ mem' = readLines(disk)
  /\ pc' = IF Len(snippets) = 0 THEN "write" ELSE "splice"
  /\ si' = 1
  /\ fi' = 1
  /\ op' = "run"
  /\ pre' = disk
  /\ prePass' = <<>>
  /\ last' = NoPass
  /\ calls' = <<>>
  /\ UNCHANGED <<disk, snippets, features>>
  /\ UNCHANGED extractVars
  /\ UNCHANGED auxVars

\* (mutant) every file is written to storage as soon as its pass returns.
SplicePass_WritesThrough ==
  /\ pc = "splice"
  /\ LET r == getSplicedFile(snippets[si], mem[fi], features)
         lastFile == fi = Len(mem)
         lastSnippet == si = Len(snippets)
     IN  /\ mem' = [mem EXCEPT ![fi] = r.lines]
         /\ disk' = IF r.threw THEN disk ELSE [disk EXCEPT ![fi] = r.lines]
         /\ calls' = r.calls
         /\ pc' = IF r.threw THEN "error"
                  ELSE IF lastFile /\ lastSnippet THEN "write"
                  ELSE "splice"
         /\ fi' = IF lastFile THEN 1 ELSE fi + 1
         /\ si' = IF lastFile THEN si + 1 ELSE si
  /\ prePass' = mem[fi]
  /\ last' = [kind |-> "splice", si |-> si, fi |-> fi]
  /\ UNCHANGED <<snippets, features, op, pre>>
  /\ UNCHANGED extractVars
  /\ UNCHANGED auxVars

\* (mutant) the loops are nested the other way: files outermost, Snippets
\* innermost.
SplicePass_FileMajor ==
  /\ pc = "splice"
  /\ LET r == getSplicedFile(snippets[si], mem[fi], features)
         lastFile == fi = Len(mem)
         lastSnippet == si = Len(snippets)
     IN  /\ mem' = [mem EXCEPT ![fi] = r.lines]
         /\ calls' = r.calls
         /\ pc' = IF r.threw THEN "error"
                  ELSE IF lastFile /\ lastSnippet THEN "write"
                  ELSE "splice"
         /\ si' = IF lastSnippet THEN 1 ELSE si + 1
         /\ fi' = IF lastSnippet THEN fi + 1 ELSE fi
  /\ prePass' = mem[fi]
  /\ last' = [kind |-> "splice", si |-> si, fi |-> fi]
  /\ UNCHANGED <<disk, snippets, features, op, pre>>
  /\ UNCHANGED extractVars
  /\ UNCHANGED auxVars

\* One turn of the inner loop of spliceSnippets: getSplicedFile(snippet,
\* file) for the Snippet si and the file fi, files innermost.  A pass that
\* throws rejects the run.
SplicePass ==
  /\ pc = "splice"
  /\ LET r == getSplicedFile(snippets[si], mem[fi], features)
         lastFile == fi = Len(mem)
         lastSnippet == si = Len(snippets)
     IN  /\ mem' = [mem EXCEPT ![fi] = r.lines]
         /\ calls' = r.calls
         /\ pc' = IF r.threw THEN "error"
                  ELSE IF lastFile /\ lastSnippet THEN "write"
                  ELSE "splice"
         /\ fi' = IF lastFile THEN 1 ELSE fi + 1
         /\ si' = IF lastFile THEN si + 1 ELSE si
  /\ prePass' = mem[fi]
  /\ last' = [kind |-> "splice", si |-> si, fi |-> fi]
  /\ UNCHANGED <<disk, snippets, features, op, pre>>
  /\ UNCHANGED extractVars
  /\ UNCHANGED auxVars

\* Sync.clear up to the first clear pass: the target files are read.
BeginClear ==
  /\ pc = "idle"
  /\ mem' = readLines(disk)
  /\ pc' = "clear"
  /\ si' = 0
  /\ fi' = 1
  /\ op' = "clear"
  /\ pre' = disk
  /\ prePass' = <<>>
  /\ last' = NoPass
  /\ calls' = <<>>
  /\ UNCHANGED <<disk, snippets, features>>
  /\ UNCHANGED extractVars
  /\ UNCHANGED auxVars

\* One turn of the loop of clearSnippets: getClearedFile(file).
ClearPass ==
  /\ pc = "clear"
  /\ mem' = [mem EXCEPT ![fi] = getClearedFile(mem[fi])]
  /\ pc' = IF fi = Len(mem) THEN "write" ELSE "clear"
  /\ fi' = fi + 1
  /\ prePass' = mem[fi]
  /\ last' = [kind |-> "clear", si |-> 0, fi |-> fi]
  /\ calls' = <<>>
  /\ UNCHANGED <<disk, snippets, features, si, op, pre>>
  /\ UNCHANGED extractVars
  /\ UNCHANGED auxVars

\* Sync.writeFiles: every File object is written back.
WriteFiles ==
  /\ pc = "write"
  /\ disk' = mem
  /\ pc' = "done"
  /\ UNCHANGED <<mem, snippets, features, si, fi, op, pre,
                 prePass, last, calls>>
  /\ UNCHANGED extractVars
  /\ UNCHANGED auxVars

Next == BeginRun \/ SplicePass \/ BeginClear \/ ClearPass \/ WriteFiles

Spec == Init /\ [][Next]_vars

\* The same program on target files whose write-start lines carry payloads.
SpecCfg == InitCfg /\ [][Next]_vars

\* Two target files, of which write-start lines of identifier X may carry a
\* payload that is no JSON.
MalformedPayload == "{bad"
RunTargetLines ==
  TargetLines \cup {WriteStartLineCfg("X", MalformedPayload)}
RunTargetFiles == {f \in SeqsUpTo(RunTargetLines, MaxRunFileLen) : WellFormed(f)}

\* The initial states of SpecMalformed: a run over two target files.
InitMalformed ==
  /\ disk \in {<<f, g>> : f \in RunTargetFiles, g \in RunTargetFiles}
  /\ mem = <<>>
  /\ snippets \in SnippetSeqs
  /\ features = [present |-> TRUE, enable_source_link |-> FALSE]
  /\ pc = "idle"
  /\ si = 0
  /\ fi = 0
  /\ op = "none"
  /\ pre = disk
  /\ prePass = <<>>
  /\ last = NoPass
  /\ calls = <<>>
  /\ NoExtraction
  /\ NoAux

\* The same program on two target files that may hold malformed payloads.
SpecMalformed == InitMalformed /\ [][Next]_vars

\* ------------------------------------------- a pass, iteration by iteration

\* A line that closes a block and opens the next one of identifier X.
EndStartLine == <<writeEnd, writeStartClose, writeStart, "X", writeStartClose>>

\* Any target file of at most MaxScanFileLen lines, its blocks closed or not.
ScanTargetLines == {TextLine, WriteStartLine("X"), WriteEndLine, EndStartLine}
ScanTargetFiles == SeqsUpTo(ScanTargetLines, MaxScanFileLen)

\* The Snippets of identifier X whose captured lines are any text: source
\* code, or lines that hold the write markers themselves.
ScanSnippets ==
  {Snippet("X", q) :
     q \in SeqsUpTo({CodeLine, WriteStartLine("X"), WriteEndLine}, MaxScanSnippetLines)}

\* The initial states of SpecScan: spliceSnippets has called getSplicedFile
\* for its first Snippet and first file, the loop has not started.
InitScan ==
  /\ disk \in {<<f>> : f \in ScanTargetFiles}
  /\ mem = readLines(disk)
  /\ snippets \in {<<x>> : x \in ScanSnippets}
  /\ features \in FeatureSets
  /\ pc = "scan"
  /\ si = 1
  /\ fi = 1
  /\ op = "run"
  /\ pre = disk
  /\ prePass = mem[1]
  /\ last = NoPass
  /\ calls = <<>>
  /\ NoExtraction
  /\ origins = <<>>
  /\ fetch = <<>>
  /\ io = <<>>
  /\ scan = ScanInit(mem[1])
  /\ renders = <<>>

\* One iteration of the loop of getSplicedFile.  extractWriteIDAndConfig
\* may throw; a splice that would grow the array beyond what an array can
\* hold throws as well (the engine is out of memory).
ScanIter ==
  /\ pc = "scan"
  /\ scan.idx < Len(scan.lines)
  /\ LET st == ScanStep(scan, snippets[si], features)
     IN  IF st.threw
         THEN scan' = st /\ pc' = "error"
         ELSE IF Len(st.lines) > MaxArrayLen
         THEN scan' = scan /\ pc' = "overflow"
         ELSE scan' = st /\ pc' = "scan"
  /\ UNCHANGED <<snippets, origins, fetch, io, renders>>
  /\ UNCHANGED spliceVars
  /\ UNCHANGED extractVars

\* The array iterator is at the end of the array: getSplicedFile returns.
ScanReturns ==
  /\ pc = "scan"
  /\ scan.idx >= Len(scan.lines)
  /\ pc' = "scanned"
  /\ mem' = [mem EXCEPT ![fi] = scan.lines]
  /\ calls' = scan.calls
  /\ last' = [kind |-> "splice", si |-> si, fi |-> fi]
  /\ UNCHANGED <<disk, snippets, features, si, fi, op, pre, prePass>>
  /\ UNCHANGED extractVars
  /\ UNCHANGED auxVars

NextScan == ScanIter \/ ScanReturns

SpecScan == InitScan /\ [][NextScan]_vars

\* ---------------------------------------------------------- the extraction

\* line.match(readMatchRegexp): readStart, then an identifier word.
ReadMatch(line) ==
  LET i == IndexOf(line, readStart)
  IN  IF i = 0 \/ i + 1 > Len(line)
      THEN [matched |-> FALSE, id |-> ""]
      ELSE [matched |-> TRUE, id |-> line[i + 1]]

\* extractReadID(line); threw is TRUE when match() returned null.
extractReadID(line) ==
  LET m == ReadMatch(line) IN [threw |-> ~m.matched, id |-> m.id]

\* The locals of extractSnippets that are set anew for each source file.
FileLocals ==
  [capture |-> FALSE, fileSnipsCount |-> 0, fileSnips |-> <<>>, threw |-> FALSE]

\* (mutant) the capture test comes first: the read-end line is captured.
eachLineCallback_CaptureFirst(loc, line, ctx) ==
  LET isEnd == Includes(line, readEnd)
      isStart == Includes(line, readStart)
      badIndex == loc.capture /\ loc.fileSnipsCount + 1 > Len(loc.fileSnips)
      snips1 == IF loc.capture /\ ~badIndex
                THEN [loc.fileSnips EXCEPT ![loc.fileSnipsCount + 1].lines = Append(@, line)]
                ELSE loc.fileSnips
      rid == extractReadID(line)
  IN  [capture |-> (loc.capture /\ ~isEnd) \/ isStart,
       fileSnipsCount |-> IF isEnd THEN loc.fileSnipsCount + 1 ELSE loc.fileSnipsCount,
       fileSnips |-> IF isStart /\ ~rid.threw
                     THEN Append(snips1, NewSnippet(rid.id, ctx.ext, ctx.owner,
                                                    ctx.repo, ctx.ref, ctx.item))
                     ELSE snips1,
       threw |-> badIndex \/ (isStart /\ rid.threw)]

\* The callback extractSnippets gives to eachLineAsync, called with line:
\* loc are the locals of the file, ctx the constants the callback closes
\* over.  fileSnips[fileSnipsCount] is undefined past the end of the array
\* and the push on its lines then throws a TypeError, as extractReadID does
\* on a read-start line without identifier.
eachLineCallback(loc, line, ctx) ==
  LET isEnd == Includes(line, readEnd)
      capture1 == IF isEnd THEN FALSE ELSE loc.capture
      count1 == IF isEnd THEN loc.fileSnipsCount + 1 ELSE loc.fileSnipsCount
      badIndex == capture1 /\ count1 + 1 > Len(loc.fileSnips)
      snips1 == IF capture1 /\ ~badIndex
                THEN [loc.fileSnips EXCEPT ![count1 + 1].lines = Append(@, line)]
                ELSE loc.fileSnips
      isStart == Includes(line, readStart)
      rid == extractReadID(line)
  IN  IF badIndex
      THEN [capture |-> capture1, fileSnipsCount |-> count1,
            fileSnips |-> loc.fileSnips, threw |-> TRUE]
      ELSE IF isStart /\ rid.threw
      THEN [capture |-> TRUE, fileSnipsCount |-> count1,
            fileSnips |-> snips1, threw |-> TRUE]
      ELSE [capture |-> capture1 \/ isStart,
            fileSnipsCount |-> count1,
            fileSnips |-> IF isStart
                          THEN Append(snips1, NewSnippet(rid.id, ctx.ext, ctx.owner,
                                                         ctx.repo, ctx.ref, ctx.item))
                          ELSE snips1,
            threw |-> FALSE]

\* The task of a repository when extractSnippets starts it: file is the
\* index of the file being read, line the number of its lines passed to the
\* callback so far.
StartTask(repository) ==
  [file |-> 1, line |-> 0, loc |-> FileLocals,
   status |-> IF Len(repository.filePaths) = 0 THEN "done" ELSE "reading"]

\* What the callback of the task of repository r closes over.
CallbackContext(r) ==
  LET item == repositories[r].filePaths[tasks[r].file]
  IN  [ext |-> determineExtension(item.name), owner |-> repositories[r].owner,
       repo |-> repositories[r].repo, ref |-> repositories[r].ref, item |-> item]

\* The lines a source file is drawn from.
ReadStartLine(id) == <<"//", readStart, id>>
ReadEndLine == <<"//", readEnd>>
SourceLines == {CodeLine, ReadEndLine} \cup {ReadStartLine(id) : id \in BlockIds}
SourceFiles == SeqsUpTo(SourceLines, MaxSrcLen)

\* The initial states of SpecExtract: extractSnippets starts on one
\* repository of one source file; nothing is spliced.
InitExtract ==
  /\ repositories = <<[owner |-> "temporalio", repo |-> "samples", ref |-> "",
                       filePaths |-> <<SourceItem>>]>>
  /\ sources \in {<<<<f>>>> : f \in SourceFiles}
  /\ tasks = [r \in 1..Len(repositories) |-> StartTask(repositories[r])]
  /\ done = <<>>
  /\ snippets = <<>>
  /\ pc = "extract"
  /\ disk = <<>>
  /\ mem = <<>>
  /\ features = [present |-> TRUE, enable_source_link |-> FALSE]
  /\ si = 0
  /\ fi = 0
  /\ op = "run"
  /\ pre = <<>>
  /\ prePass = <<>>
  /\ last = NoPass
  /\ calls = <<>>
  /\ NoAux

\* line-reader calls the callback with the next line of the file the task
\* of repository r reads.  A callback that throws fails the extraction.
EachLine(r) ==
  /\ pc = "extract"
  /\ tasks[r].status = "reading"
  /\ tasks[r].line < Len(sources[r][tasks[r].file])
  /\ LET t == tasks[r]
         loc == eachLineCallback(t.loc, sources[r][t.file][t.line + 1], CallbackContext(r))
     IN  /\ tasks' = [tasks EXCEPT ![r] = [t EXCEPT !.line = t.line + 1, !.loc = loc,
                                                    !.status = IF loc.threw THEN "threw" ELSE "reading"]]
         /\ pc' = IF loc.threw THEN "error" ELSE pc
  /\ UNCHANGED <<snippets, repositories, sources, done>>
  /\ UNCHANGED spliceVars
  /\ UNCHANGED auxVars

\* The file is read to its end: eachLineAsync resolves, the task pushes the
\* Snippets of the file on the shared array and turns to its next file.
FileEnd(r) ==
  /\ pc = "extract"
  /\ tasks[r].status = "reading"
  /\ tasks[r].line = Len(sources[r][tasks[r].file])
  /\ LET t == tasks[r]
     IN  /\ snippets' = snippets \o t.loc.fileSnips
         /\ done' = Append(done, [repo |-> r, file |-> t.file, snips |-> t.loc.fileSnips])
         /\ tasks' = [tasks EXCEPT ![r] =
                        [file |-> t.file + 1, line |-> 0, loc |-> FileLocals,
                         status |-> IF t.file = Len(repositories[r].filePaths)
                                    THEN "done" ELSE "reading"]]
  /\ UNCHANGED <<pc, repositories, sources>>
  /\ UNCHANGED spliceVars
  /\ UNCHANGED auxVars

\* Promise.all resolves: extractSnippets returns the shared array.
ExtractDone ==
  /\ pc = "extract"
  /\ \A r \in 1..Len(tasks) : tasks[r].status = "done"
  /\ pc' = "extracted"
  /\ UNCHANGED <<snippets, repositories, sources, tasks, done>>
  /\ UNCHANGED spliceVars
  /\ UNCHANGED auxVars

NextExtract ==
  \/ \E r \in 1..Len(repositories) : EachLine(r)
  \/ \E r \in 1..Len(repositories) : FileEnd(r)
  \/ ExtractDone

SpecExtract == InitExtract /\ [][NextExtract]_vars

\* The source files of a two-repository extraction: closed read-start /
\* read-end pairs only.
PairSourceFiles ==
  {f \in SeqsUpTo(SourceLines, MaxPairSrcLen) :
     Alternates(f, 1, FALSE, readStart, readEnd)}

\* The initial states of SpecPair: extractSnippets starts on two
\* repositories of one source file each, its two tasks run concurrently.
InitPair ==
  /\ repositories = <<[owner |-> "temporalio", repo |-> "samples", ref |-> "",
                       filePaths |-> <<SourceItem>>],
                      [owner |-> "temporalio", repo |-> "docs", ref |-> "v1",
                       filePaths |-> <<SourceItem>>]>>
  /\ sources \in {<<<<f>>, <<g>>>> : f \in PairSourceFiles, g \in PairSourceFiles}
  /\ tasks = [r \in 1..Len(repositories) |-> StartTask(repositories[r])]
  /\ done = <<>>
  /\ snippets = <<>>
  /\ pc = "extract"
  /\ disk = <<>>
  /\ mem = <<>>
  /\ features = [present |-> TRUE, enable_source_link |-> FALSE]
  /\ si = 0
  /\ fi = 0
  /\ op = "run"
  /\ pre = <<>>
  /\ prePass = <<>>
  /\ last = NoPass
  /\ calls = <<>>
  /\ NoAux

\* The extraction from two repositories.
SpecPair == InitPair /\ [][NextExtract]_vars

\* -------------------------------------------------------------- rendering

\* The Snippets whose rendering is followed: either identifier, any captured
\* lines of source code or prose.
FmtSnippets ==
  {Snippet(id, q) : id \in BlockIds, q \in SeqsUpTo({CodeLine, TextLine}, MaxFmtLines)}

\* The initial states of SpecFmt: the extraction has made a Snippet; snippets
\* holds it twice, as an object of the class Snippet of Sync.js (index 1)
\* and as an object of the TypeScript class Snippet (index 2).
InitFmt ==
  /\ snippets \in {<<x, x>> : x \in FmtSnippets}
  /\ renders = <<>>
  /\ pc = "render"
  /\ features \in FeatureSets
  /\ disk = <<>>
  /\ mem = <<>>
  /\ si = 0
  /\ fi = 0
  /\ op = "run"
  /\ pre = <<>>
  /\ prePass = <<>>
  /\ last = NoPass
  /\ calls = <<>>
  /\ NoExtraction
  /\ origins = <<>>
  /\ fetch = <<>>
  /\ io = <<>>
  /\ scan = <<>>

\* A call snippet.fmt(sourceLink) on the object of Sync.js: it returns the
\* lines to insert.
FmtCall(sourceLink) ==
  /\ pc = "render"
  /\ Len(renders) < MaxRenders
  /\ renders' = Append(renders,
                       [snippet |-> 1, sourceLink |-> sourceLink,
                        before |-> snippets[1].lines,
                        yielded |-> fmt(snippets[1], sourceLink),
                        after |-> snippets[1].lines])
  /\ UNCHANGED <<snippets, pc, origins, fetch, io, scan>>
  /\ UNCHANGED spliceVars
  /\ UNCHANGED extractVars

\* A call snippet.fmt(sourceLink) on the object of the TypeScript class: it
\* returns nothing, the rendering is what it leaves in this.lines.
FmtTSCall(sourceLink) ==
  /\ pc = "render"
  /\ Len(renders) < MaxRenders
  /\ snippets' = [snippets EXCEPT ![2] = fmtTS(snippets[2], sourceLink)]
  /\ renders' = Append(renders,
                       [snippet |-> 2, sourceLink |-> sourceLink,
                        before |-> snippets[2].lines,
                        yielded |-> snippets'[2].lines,
                        after |-> snippets'[2].lines])
  /\ UNCHANGED <<pc, origins, fetch, io, scan>>
  /\ UNCHANGED spliceVars
  /\ UNCHANGED extractVars

NextFmt ==
  \/ \E sourceLink \in BOOLEAN : FmtCall(sourceLink)
  \/ \E sourceLink \in BOOLEAN : FmtTSCall(sourceLink)

SpecFmt == InitFmt /\ [][NextFmt]_vars

\* ----------------------------------------------------------------- getRepos

\* A configured source: what the tests 'files' in origin, 'owner' in origin
\* and 'repo' in origin find.
Origins == [files : BOOLEAN, owner : BOOLEAN, repo : BOOLEAN]

\* The test of getRepos that makes it throw Invalid origin.
InvalidOrigin(origin) == ~origin.files /\ ~(origin.owner /\ origin.repo)

\* The file a pattern of a local source expands to.
LocalItem == [name |-> <<"main", "go">>, directory |-> <<".", "src">>]

\* An I/O operation started for the origin of index i.
IO(operation, i) == [op |-> operation, origin |-> i]

\* The callback of this.origins.map up to its first await, for the origin
\* of index i: what its task has come to, the I/O it started and the
\* repository it pushed.  glob.sync expands the patterns of a local source
\* at once; getArchive starts the download of a remote one.
MapCallback(origin, i) ==
  IF origin.files
  THEN [status |-> "done", io |-> <<IO("glob", i)>>,
        pushed |-> <<[owner |-> "local", repo |-> "local", ref |-> "",
                      filePaths |-> <<LocalItem>>]>>]
  ELSE IF ~(origin.owner /\ origin.repo)
  THEN [status |-> "threw", io |-> <<>>, pushed |-> <<>>]
  ELSE [status |-> "download", io |-> <<IO("download", i)>>, pushed |-> <<>>]

\* this.origins.map: the callback is called for every origin in order, each
\* call running to its first await (or to its return or throw), whatever
\* the calls before it came to.
RECURSIVE MapFrom(_, _, _)
MapFrom(os, i, acc) ==
  IF i > Len(os)
  THEN acc
  ELSE LET c == MapCallback(os[i], i)
       IN  MapFrom(os, i + 1,
                   [fetch |-> Append(acc.fetch, c.status),
                    io |-> acc.io \o c.io,
                    repositories |-> acc.repositories \o c.pushed])

\* The initial states of SpecRepos: run has called getRepos.
InitRepos ==
  /\ origins \in SeqsUpTo(Origins, MaxOrigins)
  /\ fetch = [i \in 1..Len(origins) |-> "idle"]
  /\ io = <<>>
  /\ repositories = <<>>
  /\ pc = "getRepos"
  /\ op = "run"
  /\ sources = <<>>
  /\ tasks = <<>>
  /\ done = <<>>
  /\ snippets = <<>>
  /\ disk = <<>>
  /\ mem = <<>>
  /\ features = [present |-> TRUE, enable_source_link |-> FALSE]
  /\ si = 0
  /\ fi = 0
  /\ pre = <<>>
  /\ prePass = <<>>
  /\ last = NoPass
  /\ calls = <<>>
  /\ scan = <<>>
  /\ renders = <<>>

\* getRepos up to its await of Promise.all: the map over the origins.
MapOrigins ==
  /\ pc = "getRepos"
  /\ LET m == MapFrom(origins, 1, [fetch |-> <<>>, io |-> <<>>, repositories |-> <<>>])
     IN  /\ fetch' = m.fetch
         /\ io' = m.io
         /\ repositories' = m.repositories
  /\ pc' = "awaitRepos"
  /\ UNCHANGED <<snippets, sources, tasks, done, origins, scan, renders>>
  /\ UNCHANGED spliceVars

\* A callback has thrown and Promise.all has not yet rejected: the rejection
\* is a microtask, it comes before the completion of any I/O.
RejectionPending ==
  pc = "awaitRepos" /\ \E i \in 1..Len(fetch) : fetch[i] = "threw"

\* getArchive resolves for origin i: the task starts writing the archive.
ArchiveDownloaded(i) ==
  /\ ~RejectionPending
  /\ fetch[i] = "download"
  /\ fetch' = [fetch EXCEPT ![i] = "write"]
  /\ io' = Append(io, IO("writeFile", i))
  /\ UNCHANGED <<snippets, pc, repositories, sources, tasks, done, origins, scan, renders>>
  /\ UNCHANGED spliceVars

\* writeAsync resolves for origin i: the task starts unpacking the archive.
ArchiveWritten(i) ==
  /\ ~RejectionPending
  /\ fetch[i] = "write"
  /\ fetch' = [fetch EXCEPT ![i] = "unzip"]
  /\ io' = Append(io, IO("unzip", i))
  /\ UNCHANGED <<snippets, pc, repositories, sources, tasks, done, origins, scan, renders>>
  /\ UNCHANGED spliceVars

\* unzip resolves for origin i: the task pushes its repository.
Unzipped(i) ==
  /\ ~RejectionPending
  /\ fetch[i] = "unzip"
  /\ fetch' = [fetch EXCEPT ![i] = "done"]
  /\ repositories' = Append(repositories,
                            [owner |-> "temporalio", repo |-> "samples", ref |-> "",
                             filePaths |-> <<SourceItem>>])
  /\ UNCHANGED <<snippets, pc, io, sources, tasks, done, origins, scan, renders>>
  /\ UNCHANGED spliceVars

\* Promise.all rejects as soon as a callback has thrown (and run rejects
\* with it); the tasks of the other origins are not cancelled.
GetReposRejects ==
  /\ RejectionPending
  /\ pc' = "error"
  /\ UNCHANGED <<snippets, repositories, sources, tasks, done>>
  /\ UNCHANGED spliceVars
  /\ UNCHANGED auxVars

\* Promise.all resolves when every task is done: getRepos returns.
GetReposReturns ==
  /\ pc = "awaitRepos"
  /\ \A i \in 1..Len(fetch) : fetch[i] = "done"
  /\ pc' = "repos"
  /\ UNCHANGED <<snippets, repositories, sources, tasks, done>>
  /\ UNCHANGED spliceVars
  /\ UNCHANGED auxVars

NextRepos ==
  \/ MapOrigins
  \/ \E i \in 1..Len(origins) : ArchiveDownloaded(i)
  \/ \E i \in 1..Len(origins) : ArchiveWritten(i)
  \/ \E i \in 1..Len(origins) : Unzipped(i)
  \/ GetReposRejects
  \/ GetReposReturns

SpecRepos == InitRepos /\ [][NextRepos]_vars

\* ------------------------------------------------ what the claims speak of

IsStart(line) == Includes(line, writeStart)
IsEnd(line) == Includes(line, writeEnd)
IsMarker(line) == IsStart(line) \/ IsEnd(line)

\* The identifier a write-start line carries.
BlockId(line) == WriteMatch(line).id

\* Positions s and e bound a write block of lines: a write-start line and
\* the write-end line that follows it, with no marker line in between.
Block(lines, s, e) ==
  /\ s \in 1..Len(lines)
  /\ e \in 1..Len(lines)
  /\ s < e
  /\ IsStart(lines[s])
  /\ IsEnd(lines[e])
  /\ \A k \in (s + 1)..(e - 1) : ~IsMarker(lines[k])

Interior(lines, s, e) == SubSeq(lines, s + 1, e - 1)

\* The subsequence of lines at the positions of the set keep, from i on.
RECURSIVE SelectFrom(_, _, _)
SelectFrom(lines, i, keep) ==
  IF i > Len(lines)
  THEN <<>>
  ELSE (IF i \in keep THEN <<lines[i]>> ELSE <<>>) \o SelectFrom(lines, i + 1, keep)

\* The marker lines of a file, in order.
Markers(lines) ==
  SelectFrom(lines, 1, {i \in 1..Len(lines) : IsMarker(lines[i])})

\* Position i lies strictly inside a write block (of identifier id, when
\* any is FALSE).
InsideBlock(lines, i, any, id) ==
  /\ ~IsMarker(lines[i])
  /\ \E s \in 1..(i - 1) :
       /\ IsStart(lines[s])
       /\ any \/ BlockId(lines[s]) = id
       /\ \A k \in (s + 1)..(i - 1) : ~IsMarker(lines[k])
  /\ \E e \in (i + 1)..Len(lines) :
       /\ IsEnd(lines[e])
       /\ \A k \in (i + 1)..(e - 1) : ~IsMarker(lines[k])

\* The lines that are not strictly inside a write block, in order.
OutsideBlocks(lines) ==
  SelectFrom(lines, 1, {i \in 1..Len(lines) : ~InsideBlock(lines, i, TRUE, "")})

\* The lines that are not strictly inside a write block of identifier id.
OutsideBlocksOf(lines, id) ==
  SelectFrom(lines, 1, {i \in 1..Len(lines) : ~InsideBlock(lines, i, FALSE, id)})

SnippetIds == {snippets[k].id : k \in 1..Len(snippets)}

\* spliceSnippets has returned (and writeFiles is about to be called).
Spliced == op = "run" /\ pc = "write"

\* The index of the last Snippet of identifier id that was processed.
LastOf(id) ==
  CHOOSE k \in 1..Len(snippets) :
    snippets[k].id = id /\ \A j \in (k + 1)..Len(snippets) : snippets[j].id # id

\* C1: after spliceSnippets returns, the interior of every write block whose
\* identifier is that of some Snippet of the set is the rendering of a
\* Snippet of that identifier (with or without the source link), also for a
\* second block of the identifier and whatever the previous interiors were.
C1_EveryMatchingBlockRendered ==
  Spliced =>
    \A f \in 1..Len(mem) : \A s, e \in 1..Len(mem[f]) :
      (Block(mem[f], s, e) /\ BlockId(mem[f][s]) \in SnippetIds) =>
        \E k \in 1..Len(snippets), b \in BOOLEAN :
          /\ snippets[k].id = BlockId(mem[f][s])
          /\ Interior(mem[f], s, e) = fmt(snippets[k], b)

\* C2: splice is idempotent: splicing the result of spliceSnippets again
\* with the same Snippets gives the same lines.
C2_SpliceIdempotent ==
  Spliced => spliceSnippets(snippets, mem, features) = mem

\* C3: last-write-wins: after spliceSnippets, every write block whose
\* identifier some Snippets carry holds the rendering of the last processed
\* Snippet of that identifier.
C3_LastWriteWins ==
  Spliced =>
    \A f \in 1..Len(mem) : \A s, e \in 1..Len(mem[f]) :
      (Block(mem[f], s, e) /\ BlockId(mem[f][s]) \in SnippetIds) =>
        \E b \in BOOLEAN :
          Interior(mem[f], s, e) = fmt(snippets[LastOf(BlockId(mem[f][s]))], b)

\* A pass (of either kind) has just ended on the file last.fi.
AfterSplicePass == last.kind = "splice"
AfterClearPass == last.kind = "clear"
PassFile == mem[last.fi]

C5_FrameOfSplicePass ==
  AfterSplicePass =>
    OutsideBlocksOf(PassFile, snippets[last.si].id)
      = OutsideBlocksOf(prePass, snippets[last.si].id)

C5_Witness ==
  /\ AfterSplicePass
  /\ calls # <<>>
  /\ PassFile # prePass
  /\ \E s, e \in 1..Len(prePass) :
       /\ Block(prePass, s, e)
       /\ BlockId(prePass[s]) # snippets[last.si].id
       /\ e > s + 1
  /\ \E i \in 1..Len(prePass) : ~IsMarker(prePass[i]) /\ ~InsideBlock(prePass, i, TRUE, "")

\* after is before with every write block emptied and nothing else changed.
ClearedOf(before, after) ==
  /\ after = OutsideBlocks(before)
  /\ \A s, e \in 1..Len(after) : Block(after, s, e) => e = s + 1

C8_ClearIdempotent ==
  pc # "done" =>
    \A f \in 1..Len(mem) :
      getClearedFile(getClearedFile(mem[f])) = getClearedFile(mem[f])

C8_Witness ==
  /\ AfterClearPass
  /\ PassFile # prePass
  /\ getClearedFile(PassFile) = PassFile

\* The inline override of a write-start line (present is FALSE without one).
OwnConfig(line) == extractWriteIDAndConfig(line).config

\* C10: every block is rendered with the override of its own write-start
\* line when it has one and with the global feature flags otherwise; its
\* interior starts with the source-link line exactly when that
\* configuration enables it.
C10_EffectiveConfig ==
  AfterSplicePass =>
    \A c \in 1..Len(calls) :
      LET call == calls[c]
          own == OwnConfig(call.startLine)
          eff == IF own.present THEN own ELSE features
      IN  /\ call.config = eff
          /\ PassFile[call.start] = call.startLine
          /\ (PassFile[call.start + 1] = fmtSourceLink(snippets[last.si]))
               <=> eff.enable_source_link

C10_Witness ==
  /\ AfterSplicePass
  /\ Len(calls) = 2
  /\ OwnConfig(calls[1].startLine).present
  /\ OwnConfig(calls[1].startLine).enable_source_link # features.enable_source_link
  /\ ~OwnConfig(calls[2].startLine).present
  /\ calls[2].config = features

\* The positions of the read-start lines and of the read-end lines.
ReadStarts(lines) == {i \in 1..Len(lines) : Includes(lines[i], readStart)}
ReadEnds(lines) == {i \in 1..Len(lines) : Includes(lines[i], readEnd)}

\* The source file is made of read-start / read-end pairs: the two kinds of
\* marker lines strictly alternate, from a read-start to a read-end.
Paired(lines) == Alternates(lines, 1, FALSE, readStart, readEnd)

\* The j-th smallest position of the set P.
Nth(P, j) == CHOOSE p \in P : Cardinality({q \in P : q <= p}) = j

HasMalformedPayload(line) ==
  /\ IsStart(line)
  /\ WriteMatch(line).matched
  /\ WriteMatch(line).payload # <<>>
  /\ ~JSONParse(WriteMatch(line).payload).ok

\* Some file of the storage holds a write-start line with a malformed payload.
SomeMalformed(storage) ==
  \E f \in 1..Len(storage) : \E i \in 1..Len(storage[f]) :
    HasMalformedPayload(storage[f][i])

\* C11: a run over target files of which one holds a write-start line with
\* a malformed payload never completes normally (it reaches neither
\* writeFiles nor its end), for every Snippet set, the empty one included.
C11_MalformedPayloadAborts ==
  (op = "run" /\ SomeMalformed(pre)) => pc \notin {"write", "done"}

\* C12: when a run aborts on a malformed payload, every target file on
\* storage has the content it had when the run started.
C12_NoWriteOnAbort ==
  (op = "run" /\ pc = "error") => disk = pre

C12_Witness ==
  /\ op = "run"
  /\ pc = "error"
  /\ last.si = 1
  /\ last.fi = 2
  /\ mem[1] # pre[1]
  /\ HasMalformedPayload(mem[2][1])

\* The files after the first n passes made in Snippet-major order (pass p
\* applies Snippet ((p - 1) \div nFiles) + 1 to file ((p - 1) % nFiles) + 1),
\* each pass on the lines the passes before it left.
RECURSIVE Replay(_, _)
Replay(files, n) ==
  IF n = 0
  THEN files
  ELSE LET before == Replay(files, n - 1)
           k == ((n - 1) \div Len(files)) + 1
           f == ((n - 1) % Len(files)) + 1
       IN  [before EXCEPT ![f] = getSplicedFile(snippets[k], before[f], features).lines]

\* C19: the passes are serialized in Snippet-major order: the pass of
\* Snippet si on file fi is pass number (si - 1) * nFiles + fi, it scans the
\* lines that all the passes before it left, and after it the files are what
\* the passes up to it leave.
C19_SnippetMajorSerialized ==
  AfterSplicePass =>
    LET n == (last.si - 1) * Len(mem) + last.fi
    IN  /\ prePass = Replay(pre, n - 1)[last.fi]
        /\ mem = Replay(pre, n)

C19_Witness ==
  /\ AfterSplicePass
  /\ Len(mem) = 2
  /\ last.si = 2
  /\ last.fi = 2
  /\ mem[1] # pre[1]
  /\ prePass # pre[2]
  /\ mem[2] # prePass

\* C13: when a configured source has neither a file pattern list nor an
\* owner/repo pair, no I/O is performed for any source, before or after
\* getRepos fails, whatever the position of the invalid source.
C13_InvalidSourceNoIO ==
  (\E i \in 1..Len(origins) : InvalidOrigin(origins[i])) => io = <<>>

\* What the callback leaves of the lines i.. of a source file, called line
\* after line with nothing in between.
RECURSIVE CallbackFrom(_, _, _, _)
CallbackFrom(lines, i, loc, ctx) ==
  IF i > Len(lines) \/ loc.threw
  THEN loc
  ELSE CallbackFrom(lines, i + 1, eachLineCallback(loc, lines[i], ctx), ctx)

\* The Snippets of the only file of repository r.
SnippetsOfRepo(r) ==
  LET item == repositories[r].filePaths[1]
      ctx == [ext |-> determineExtension(item.name), owner |-> repositories[r].owner,
              repo |-> repositories[r].repo, ref |-> repositories[r].ref, item |-> item]
  IN  CallbackFrom(sources[r][1], 1, FileLocals, ctx).fileSnips

\* The Snippets in the order of the interleaving that reads the
\* repositories one after the other.
RECURSIVE SnippetsInTurn(_)
SnippetsInTurn(r) ==
  IF r > Len(repositories) THEN <<>> ELSE SnippetsOfRepo(r) \o SnippetsInTurn(r + 1)

\* A target file with one block of identifier X.
OneBlockX == <<WriteStartLine("X"), TextLine, WriteEndLine>>

\* C14: the result of the run does not depend on the interleaving of the
\* extraction tasks: the spliced content of a target file is, with the
\* Snippets in the order extractSnippets returns them, what it is with
\* the Snippets in the order of the interleaving that reads the repositories
\* one after the other.
C14_InterleavingIndependent ==
  pc = "extracted" =>
    spliceSnippets(snippets, <<OneBlockX>>, features)
      = spliceSnippets(SnippetsInTurn(1), <<OneBlockX>>, features)

\* C15: every splice pass terminates, whatever text the Snippet's captured
\* lines contain: the loop of getSplicedFile ends because the iterator
\* reaches the end of the array, it never grows the array until the array
\* can hold no more.
C15_PassTerminates == pc # "overflow"

\* C18: at every call spliceFile(start, end, ...) of getSplicedFile,
\* start < end, the line at start is a write-start line of the Snippet's
\* identifier, the line at end is a write-end line, and the number of lines
\* removed, end - start - 1, is not negative and is the number of lines
\* strictly between the two.
C18_SpliceCallBounds ==
  pc \in {"scan", "scanned"} =>
    \A c \in 1..Len(scan.calls) :
      LET call == scan.calls[c]
      IN  /\ call.start < call.end
          /\ IsStart(call.startLine)
          /\ BlockId(call.startLine) = snippets[si].id
          /\ IsEnd(call.endLine)
          /\ call.end - call.start - 1 >= 0
          /\ call.end - call.start - 1 = call.between

\* The capture is open at the end of the file: a read-start line is
\* followed by no read-end line.
OpenAtEnd(lines) ==
  \E s \in ReadStarts(lines) : \A e \in ReadEnds(lines) : e <= s

\* The source file of the d-th entry of done.
DoneFile(d) == sources[done[d].repo][done[d].file]

\* C16: when the end of a source file is reached while a capture is open,
\* the condition is reported: the extraction does not return as if the
\* partial Snippet were complete.  (The extraction calls no logger; the only
\* report it can make is to fail.)
C16_UnterminatedReported ==
  pc = "extracted" => \A d \in 1..Len(done) : ~OpenAtEnd(DoneFile(d))

\* The source file is made of closed read-start / read-end pairs and of
\* read-end lines met while no capture is open, from position i on.
RECURSIVE PairsAndStrayEnds(_, _, _)
PairsAndStrayEnds(lines, i, open) ==
  IF i > Len(lines)
  THEN ~open
  ELSE LET s == Includes(lines[i], readStart)
           e == Includes(lines[i], readEnd)
       IN  /\ ~(s /\ e)
           /\ s => ~open
           /\ PairsAndStrayEnds(lines, i + 1,
                                IF s THEN TRUE ELSE IF e THEN FALSE ELSE open)

\* The first read-end line after position s.
EndAfter(lines, s) ==
  CHOOSE e \in ReadEnds(lines) :
    e > s /\ \A x \in ReadEnds(lines) : x > s => e <= x

\* C20: a read-end line met while no capture is open has no effect: the
\* scan of the file does not fail, and every pair of the file yields a
\* Snippet that holds exactly the lines between the pair's two marker lines.
C20_StrayReadEndHarmless ==
  /\ \A r \in 1..Len(tasks) :
       (tasks[r].status = "threw"
          => ~PairsAndStrayEnds(sources[r][tasks[r].file], 1, FALSE))
  /\ \A d \in 1..Len(done) :
       PairsAndStrayEnds(DoneFile(d), 1, FALSE) =>
         /\ Len(done[d].snips) = Cardinality(ReadStarts(DoneFile(d)))
         /\ \A j \in 1..Len(done[d].snips) :
              LET s == Nth(ReadStarts(DoneFile(d)), j)
              IN  done[d].snips[j].lines
                    = SubSeq(DoneFile(d), s + 1, EndAfter(DoneFile(d), s) - 1)

\* The first call of fmt made on the Snippet object of the r-th call.
FirstRender(r) ==
  CHOOSE q \in 1..r :
    /\ renders[q].snippet = renders[r].snippet
    /\ \A x \in 1..(q - 1) : renders[x].snippet # renders[r].snippet

\* The rendering of captured lines: the optional source-link line, the
\* opening fence, the captured lines, the closing fence.
Rendering(captured, snippet, sourceLink) ==
  (IF sourceLink THEN <<fmtSourceLink(snippet)>> ELSE <<>>)
    \o <<fmtStartCodeBlock(snippet.ext)>> \o captured \o <<<<markdownCodeTicks>>>>

\* C17: a call of Snippet.fmt leaves the Snippet's captured lines as they
\* were, and every call yields the rendering of the lines the Snippet
\* captured: link line if asked for, fence, captured lines, fence.
C17_FmtLeavesSnippet ==
  \A r \in 1..Len(renders) :
    /\ renders[r].after = renders[r].before
    /\ renders[r].yielded
         = Rendering(renders[FirstRender(r)].before,
                     snippets[renders[r].snippet], renders[r].sourceLink)

====
